---- MODULE Spec2Model ----
(***************************************************************************)
(* SurveySensei MCP server: the key schema, the survey and response        *)
(* repositories and the scan-and-reduce statistics, as registered by       *)
(* setupServerTools in src/src/index.ts and src/src/tools.ts over one      *)
(* Durable Object storage.                                                 *)
(*                                                                         *)
(* Strings that the code inspects (storage keys, ids, wallets) are         *)
(* sequences of one-character strings, so that concatenation, prefix       *)
(* matching, key order and toLowerCase are computed.  Strings the code     *)
(* only copies (title, explanation, ...) are TLA+ strings.                 *)
(***************************************************************************)
EXTENDS Integers, Sequences, FiniteSets, TLC

VARIABLES
    storage,    \* DurableObjectStorage: key -> stored record
    last,       \* the last completed tool call: its name, arguments and JSON result
    issued,     \* history: the survey records createSurveyMeta returned
    accepted,   \* history: the response records submitResponse returned with ok:true
    okSubmits,  \* history: per surveyId, the number of submitResponse calls that returned ok:true
    handlers,   \* SpecAwait: per request slot, the handler suspended at an await
    routed      \* SpecRouter: the requests the entry router has forwarded

vars == <<storage, last, issued, accepted, okSubmits, handlers, routed>>

(***************************************************************************)
(* Bounds of the model.                                                    *)
(***************************************************************************)
MaxSurveys == 2
MaxResponses == 2
MaxHandlers == 2
MaxStored == 2

(***************************************************************************)
(* Characters and strings.                                                 *)
(***************************************************************************)
\* UTF-16 code units of the characters that occur in keys; storage.list
\* returns its entries sorted by key.
CharCode(c) ==
    CASE c = "0" -> 48  [] c = "1" -> 49  [] c = ":" -> 58
      [] c = "e" -> 101 [] c = "n" -> 110 [] c = "o" -> 111
      [] c = "p" -> 112 [] c = "r" -> 114 [] c = "s" -> 115
      [] c = "u" -> 117 [] c = "v" -> 118 [] c = "y" -> 121
      [] OTHER -> 0

\* String.prototype.toLowerCase, one character.
LowerChar(c) ==
    CASE c = "A" -> "a" [] c = "B" -> "b" [] c = "C" -> "c" [] OTHER -> c

\* String.prototype.toLowerCase
toLowerCase(s) == [i \in 1..Len(s) |-> LowerChar(s[i])]

\* String.prototype.startsWith: the test storage.list({prefix}) applies to keys.
StartsWith(s, p) == Len(p) <= Len(s) /\ SubSeq(s, 1, Len(p)) = p

\* Lexicographic order on strings by code unit: the order of storage.list.
RECURSIVE KeyLess(_, _)
KeyLess(a, b) ==
    IF a = <<>> THEN b # <<>>
    ELSE IF b = <<>> THEN FALSE
    ELSE IF CharCode(Head(a)) < CharCode(Head(b)) THEN TRUE
    ELSE IF CharCode(Head(a)) > CharCode(Head(b)) THEN FALSE
    ELSE KeyLess(Tail(a), Tail(b))

(***************************************************************************)
(* Storage key helpers.                                                    *)
(***************************************************************************)
SurveyTag == <<"s", "u", "r", "v", "e", "y", ":">>
ResponseTag == <<"r", "e", "s", "p", "o", "n", "s", "e", ":">>

\* Mutant: the id is left out of the key.
surveyKey_NoId(id) == SurveyTag

surveyKey(id) == SurveyTag \o id
\* Mutant: the prefix leaves out the survey id, so a scan sees every response.
responsePrefix_AllSurveys(surveyId) == ResponseTag

responsePrefix(surveyId) == ResponseTag \o surveyId \o <<":">>
\* Mutant: the key is not scoped by the survey id.
responseKey_NoSurveyId(surveyId, responseId) == ResponseTag \o responseId

responseKey(surveyId, responseId) == responsePrefix(surveyId) \o responseId

(***************************************************************************)
(* DurableObjectStorage: get, put and list.                                *)
(***************************************************************************)
EmptyStorage == [k \in {} |-> <<>>]

\* Mutant: the lookup takes the first key that starts with the given one.
StorageGet_ByPrefix(st, key) ==
    IF \E k \in DOMAIN st : StartsWith(k, key)
    THEN <<st[CHOOSE k \in DOMAIN st : StartsWith(k, key)]>>
    ELSE <<>>

\* storage.get(key): <<>> for undefined, <<value>> for a stored value.
StorageGet(st, key) == IF key \in DOMAIN st THEN <<st[key]>> ELSE <<>>

\* Mutant: the put replaces the whole store by the one entry.
StoragePut_OnlyKey(st, key, value) == (key :> value)

\* storage.put(key, value): sets the key, replacing any value it had.
StoragePut(st, key, value) == (key :> value) @@ st

RECURSIVE SortKeys(_)
SortKeys(S) ==
    IF S = {} THEN <<>>
    ELSE LET m == CHOOSE k \in S : \A j \in S \ {k} : KeyLess(k, j)
         IN  <<m>> \o SortKeys(S \ {m})

\* storage.list({prefix}): the entries whose key starts with prefix, as
\* <<key, value>> pairs in key order.
StorageList(st, prefix) ==
    LET ks == SortKeys({k \in DOMAIN st : StartsWith(k, prefix)})
    IN  [i \in 1..Len(ks) |-> <<ks[i], st[ks[i]]>>]

(***************************************************************************)
(* Identifiers, time and the tools' inputs.                                *)
(***************************************************************************)
\* The values crypto.randomUUID() may return: strings of one fixed length
\* over an alphabet without ":".
Uuids == {<<"0", "0">>, <<"0", "1">>, <<"1", "0">>, <<"1", "1">>}

\* The ids already generated on this storage.
UsedUuids(st) == {st[k].id : k \in DOMAIN st}

\* Mutant: a generated id may repeat an earlier one.
randomUUID_MayRepeat(st) == Uuids

\* crypto.randomUUID(): a value distinct from every id generated before.
randomUUID(st) == Uuids \ UsedUuids(st)

\* The surveyId strings callers pass: every uuid and the empty string.
SurveyIdArgs == Uuids \cup {<<>>}

\* Date.now(): the wall-clock readings offered. createdAt is copied and
\* never read by a tool.
Times == {1700}

\* Argument records offered to createSurveyMeta. description is <<>> when
\* the optional argument is absent. targetResponses is the JS number n/d,
\* written <<"number", n, d>> in lowest terms, so that 1.5 can be offered.
CreateArgs ==
    { [title |-> "Survey", description |-> <<>>, questions |-> <<"Q1", "Q2">>,
       creatorWallet |-> <<"A", "B", "C">>, totalReward |-> 5, targetResponses |-> <<"number", 2, 1>>],
      [title |-> "", description |-> <<"about">>, questions |-> <<"Q1">>,
       creatorWallet |-> <<"a", "b", "c">>, totalReward |-> 1, targetResponses |-> <<"number", 1, 1>>],
      [title |-> "Survey", description |-> <<>>, questions |-> <<>>,
       creatorWallet |-> <<"x", "y">>, totalReward |-> 5, targetResponses |-> <<"number", 2, 1>>],
      [title |-> "Survey", description |-> <<>>, questions |-> <<"Q1">>,
       creatorWallet |-> <<"x", "y">>, totalReward |-> 0, targetResponses |-> <<"number", 2, 1>>],
      [title |-> "Survey", description |-> <<>>, questions |-> <<"Q1">>,
       creatorWallet |-> <<"x", "y">>, totalReward |-> 5, targetResponses |-> <<"number", 0, 1>>],
      [title |-> "Survey", description |-> <<>>, questions |-> <<"Q1">>,
       creatorWallet |-> <<"x", "y">>, totalReward |-> 5, targetResponses |-> <<"number", 3, 2>>] }

\* The zod schema of createSurveyMeta: questions .min(1), totalReward
\* .positive(), targetResponses .int().positive(); title is any string.
CreateSchemaAccepts(a) ==
    /\ Len(a.questions) >= 1
    /\ a.totalReward > 0
    /\ a.targetResponses[3] = 1
    /\ a.targetResponses[2] > 0

\* A score is <<"number", n>>. Records written before the score field was
\* added hold <<"undefined", 0>>; <<"string", 0>> is the string "x".
Num(n) == <<"number", n>>

\* Argument records offered to submitResponse, without the surveyId.
SubmitArgs ==
    { [wallet |-> <<"A", "B", "C">>, answers |-> <<"yes">>, verdict |-> "VALID",
       score |-> Num(8), explanation |-> "ok"],
      [wallet |-> <<"a", "b", "c">>, answers |-> <<"yes">>, verdict |-> "VALID",
       score |-> Num(3), explanation |-> "ok"],
      [wallet |-> <<"x", "y">>, answers |-> <<"no">>, verdict |-> "REJECTED",
       score |-> Num(9), explanation |-> "spam"],
      [wallet |-> <<"x", "y">>, answers |-> <<"no">>, verdict |-> "PENDING",
       score |-> Num(4), explanation |-> "later"] }

\* The zod schema of submitResponse: verdict is z.enum(["VALID", "REJECTED"])
\* and score is z.number().
SubmitSchemaAccepts(a) ==
    /\ a.verdict \in {"VALID", "REJECTED"}
    /\ a.score[1] = "number"

\* The two registrations of the storage-backed tools.
Variants == {"index", "tools"}

(***************************************************************************)
(* JSON.stringify of the records the tools return.                         *)
(***************************************************************************)
\* A Survey as JSON: a property whose value is undefined is left out.
JsonSurvey(s) ==
    IF s.description = <<>>
    THEN [id |-> s.id, title |-> s.title, questions |-> s.questions,
          creatorWallet |-> s.creatorWallet, totalReward |-> s.totalReward,
          targetResponses |-> s.targetResponses, createdAt |-> s.createdAt]
    ELSE [id |-> s.id, title |-> s.title, description |-> s.description[1],
          questions |-> s.questions, creatorWallet |-> s.creatorWallet,
          totalReward |-> s.totalReward, targetResponses |-> s.targetResponses,
          createdAt |-> s.createdAt]

\* The failure value for a missing survey: index.ts writes a message with
\* the id, tools.ts's getSurveyById and getSurveyStats a fixed code.
NotFoundMessage(surveyId) == [ok |-> FALSE, error |-> <<"Survey ", surveyId, " not found">>]
NotFoundCode == [ok |-> FALSE, error |-> <<"SURVEY_NOT_FOUND">>]

(***************************************************************************)
(* The scan-and-reduce statistics.                                         *)
(***************************************************************************)
\* Mutant: the wallet is appended whether or not it is already there.
SetAdd_Always(set, x) == Append(set, x)

\* Set.prototype.add on a Set kept in insertion order.
SetAdd(set, x) == IF \E i \in 1..Len(set) : set[i] = x THEN set ELSE Append(set, x)

RECURSIVE Gcd(_, _)
Gcd(a, b) == IF b = 0 THEN a ELSE Gcd(b, a % b)

Abs(n) == IF n < 0 THEN -n ELSE n

\* The number n / d (d > 0), in lowest terms.
Quotient(n, d) ==
    LET g == Gcd(Abs(n), d)
    IN  <<"number", n \div g, d \div g>>

\* Mutant: the running total is overwritten by the score, not added to.
NumberAdd_KeepLast(x, y) == y

\* A JavaScript number is an IEEE-754 double with a 53-bit significand.
\* <<"number", n>> is the integer n, and <<"number", l, h>> the number
\* h * 2^53 + l (h > 0, l >= 0 and small). Hi is the h of either form.
Hi(x) == IF Len(x) > 2 THEN x[3] ELSE 0

\* The distance between neighbouring doubles from h * 2^53 (h > 0) on: 2 from
\* 2^53, 4 from 2^54, and so on.
RECURSIVE Ulp(_)
Ulp(h) == IF h <= 1 THEN 2 ELSE 2 * Ulp(h \div 2)

\* l rounded to the nearest multiple of ulp, a tie going to the even
\* significand (the multiple of 2 * ulp): IEEE-754 round-to-nearest-even.
RoundToEven(l, ulp) ==
    LET down == l - (l % ulp)
        up == down + ulp
    IN  IF l = down THEN l
        ELSE IF 2 * (l - down) < ulp THEN down
        ELSE IF 2 * (l - down) > ulp THEN up
        ELSE IF down % (2 * ulp) = 0 THEN down ELSE up

\* x + y on two numbers: the exact sum, rounded to a double. Integers below
\* 2^53 are doubles, so their sum is exact.
NumberAdd(x, y) ==
    LET h == Hi(x) + Hi(y)
        l == x[2] + y[2]
    IN  IF h = 0 THEN <<"number", l>>
        ELSE <<"number", RoundToEven(l, Ulp(h)), h>>

\* x / d for a count d > 0: the quotient in lowest terms, and for a sum of
\* 2^53 or more the sum and the divisor as they are.
NumberDivide(x, d) ==
    IF Hi(x) = 0 THEN Quotient(x[2], d) ELSE <<"number", x[2], d, Hi(x)>>

\* Mutant: an average over nothing is reported as the number 0.
JsonNull_Zero == <<"number", 0, 1>>

\* avgScore when there is nothing to average: JSON null.
JsonNull == <<"null", 0, 1>>

\* getSurveyStats of index.ts: the for-of loop over the scanned entries. acc is [walletSet, responses, totalScore, scoredCount].
RECURSIVE ScanLoop(_, _)
ScanLoop(entries, acc) ==
    IF entries = <<>> THEN acc
    ELSE LET resp == Head(entries)[2]
             valid == resp.status = "VALID"
             scored == valid /\ resp.score[1] = "number"
         IN  ScanLoop(Tail(entries),
                 [walletSet |-> IF valid THEN SetAdd(acc.walletSet, resp.wallet)
                                ELSE acc.walletSet,
                  responses |-> Append(acc.responses, resp),
                  totalScore |-> IF scored THEN NumberAdd(acc.totalScore, resp.score)
                                 ELSE acc.totalScore,
                  scoredCount |-> IF scored THEN acc.scoredCount + 1
                                  ELSE acc.scoredCount])

ScanStart == [walletSet |-> <<>>, responses |-> <<>>, totalScore |-> <<"number", 0>>, scoredCount |-> 0]

\* The stats object getSurveyStats of index.ts returns for the scanned entries.
StatsIndex(entries) ==
    LET acc == ScanLoop(entries, ScanStart)
    IN  [totalResponses |-> Len(acc.responses),
         totalValidWallets |-> Len(acc.walletSet),
         avgScore |-> IF acc.scoredCount > 0
                      THEN NumberDivide(acc.totalScore, acc.scoredCount)
                      ELSE JsonNull,
         wallets |-> acc.walletSet]

\* Mutant: no filter on the status.
FilterValid_All(responses) == responses

\* responses.filter(r => r.status === "VALID")
RECURSIVE FilterValid(_)
FilterValid(responses) ==
    IF responses = <<>> THEN <<>>
    ELSE IF Head(responses).status = "VALID"
         THEN <<Head(responses)>> \o FilterValid(Tail(responses))
         ELSE FilterValid(Tail(responses))

\* new Set(valid.map(r => r.wallet.toLowerCase()))
RECURSIVE LowerWalletSet(_, _)
LowerWalletSet(valid, set) ==
    IF valid = <<>> THEN set
    ELSE LowerWalletSet(Tail(valid), SetAdd(set, toLowerCase(Head(valid).wallet)))

\* valid.reduce((s, r) => s + (r.score ?? 0), 0): s is <<"number", n>>, or
\* <<"string", 0>> once a string was concatenated to it.
RECURSIVE SumScores(_, _)
SumScores(valid, s) ==
    IF valid = <<>> THEN s
    ELSE LET score == Head(valid).score
             term == IF score[1] = "undefined" THEN Num(0) ELSE score
         IN  SumScores(Tail(valid),
                 IF s[1] = "number" /\ term[1] = "number"
                 THEN NumberAdd(s, term)
                 ELSE <<"string", 0>>)

\* buildStats_andResponses of tools.ts. A sum that became a string such as
\* "8x" divides to NaN, which JSON.stringify writes as null.
buildStats_andResponses(responses) ==
    LET valid == FilterValid(responses)
        walletSet == LowerWalletSet(valid, <<>>)
        sum == SumScores(valid, Num(0))
    IN  [totalResponses |-> Len(responses),
         totalValidWallets |-> Len(walletSet),
         avgScore |-> IF Len(valid) > 0
                      THEN IF sum[1] = "number" THEN NumberDivide(sum, Len(valid))
                           ELSE JsonNull
                      ELSE JsonNull,
         wallets |-> walletSet]

\* [...iter].map(([, r]) => r)
Values(entries) == [i \in 1..Len(entries) |-> entries[i][2]]

(***************************************************************************)
(* The tool handlers, each as a function of the storage it reads.          *)
(***************************************************************************)
\* What the tool-invocation surface answers when the arguments fail the
\* tool's zod schema: the handler is not called.
SchemaError == [ok |-> FALSE, error |-> <<"Invalid arguments">>]

\* Mutant: the existence check is skipped.
SurveyMissing_Never(st, surveyId) == FALSE

\* submitResponse's test `if (!survey)` on the survey it looked up.
SurveyMissing(st, surveyId) == StorageGet(st, surveyKey(surveyId)) = <<>>

\* The Survey object createSurveyMeta builds.
NewSurvey(id, a, time) ==
    [id |-> id, title |-> a.title, description |-> a.description,
     questions |-> a.questions, creatorWallet |-> a.creatorWallet,
     totalReward |-> a.totalReward, targetResponses |-> a.targetResponses,
     createdAt |-> time]

\* Mutant: a new response starts as PENDING, whatever the verdict.
statusOf_Pending(verdict) == "PENDING"

\* `verdict === "VALID" ? "VALID" : "REJECTED"` of index.ts; tools.ts stores
\* the verdict itself, which its schema keeps to the same two values.
statusOf(verdict) == IF verdict = "VALID" THEN "VALID" ELSE "REJECTED"

\* The SurveyResponse object submitResponse builds; status is the verdict.
NewResponse(id, surveyId, a, time) ==
    [id |-> id, surveyId |-> surveyId, wallet |-> a.wallet, answers |-> a.answers,
     status |-> statusOf(a.verdict),
     score |-> a.score, explanation |-> a.explanation, createdAt |-> time]

\* The JSON submitResponse returns after its write.
SubmitOk(variant, surveyId, response) ==
    IF variant = "index"
    THEN [ok |-> TRUE, surveyId |-> surveyId, response |-> response]
    ELSE [ok |-> TRUE, response |-> response]

\* getSurveyById
GetSurveyByIdResult(variant, st, surveyId) ==
    LET survey == StorageGet(st, surveyKey(surveyId))
    IN  IF survey = <<>>
        THEN IF variant = "index" THEN NotFoundMessage(surveyId) ELSE NotFoundCode
        ELSE [ok |-> TRUE, survey |-> JsonSurvey(survey[1])]

\* Mutant: a survey counts as found when the scan of its prefix is not
\* empty, and the counts of the scan are reported.
GetSurveyStatsResult_FoundByScan(variant, st, surveyId) ==
    LET survey == StorageGet(st, surveyKey(surveyId))
        iter == StorageList(st, responsePrefix(surveyId))
    IN  IF survey = <<>> /\ iter = <<>>
        THEN IF variant = "index" THEN NotFoundMessage(surveyId) ELSE NotFoundCode
        ELSE [ok |-> TRUE, survey |-> survey,
              stats |-> IF variant = "index" THEN StatsIndex(iter)
                        ELSE buildStats_andResponses(Values(iter))]

\* getSurveyStats
GetSurveyStatsResult(variant, st, surveyId) ==
    LET survey == StorageGet(st, surveyKey(surveyId))
        iter == StorageList(st, responsePrefix(surveyId))
    IN  IF survey = <<>>
        THEN IF variant = "index" THEN NotFoundMessage(surveyId) ELSE NotFoundCode
        ELSE IF variant = "index"
        THEN [ok |-> TRUE, survey |-> JsonSurvey(survey[1]), stats |-> StatsIndex(iter)]
        ELSE [ok |-> TRUE, survey |-> JsonSurvey(survey[1]),
              stats |-> buildStats_andResponses(Values(iter)),
              responses |-> Values(iter)]

\* Mutant: the wallet is added whatever the status of the response.
RECURSIVE WalletLoop_AnyStatus(_, _)
WalletLoop_AnyStatus(entries, acc) ==
    IF entries = <<>> THEN acc
    ELSE LET resp == Head(entries)[2]
         IN  WalletLoop_AnyStatus(Tail(entries),
                 [walletSet |-> SetAdd(acc.walletSet, resp.wallet),
                  responses |-> Append(acc.responses, resp)])

\* listValidWallets' own for-of loop over the scanned entries. acc is
\* [walletSet, responses].
RECURSIVE WalletLoop(_, _)
WalletLoop(entries, acc) ==
    IF entries = <<>> THEN acc
    ELSE LET resp == Head(entries)[2]
         IN  WalletLoop(Tail(entries),
                 [walletSet |-> IF resp.status = "VALID"
                                THEN SetAdd(acc.walletSet, resp.wallet)
                                ELSE acc.walletSet,
                  responses |-> Append(acc.responses, resp)])

WalletStart == [walletSet |-> <<>>, responses |-> <<>>]

\* listValidWallets (index.ts only)
ListValidWalletsResult(st, surveyId) ==
    LET survey == StorageGet(st, surveyKey(surveyId))
        acc == WalletLoop(StorageList(st, responsePrefix(surveyId)), WalletStart)
    IN  IF survey = <<>>
        THEN NotFoundMessage(surveyId)
        ELSE [ok |-> TRUE, surveyId |-> surveyId,
              totalResponses |-> Len(acc.responses),
              totalValidWallets |-> Len(acc.walletSet),
              wallets |-> acc.walletSet]

\* Mutant: the creator wallets are compared without regard to letter case.
CreatorMatches_IgnoreCase(s, creatorWallet) ==
    toLowerCase(s.creatorWallet) = toLowerCase(creatorWallet)

\* listSurveysByCreator's filter: `s.creatorWallet === creatorWallet`.
CreatorMatches(s, creatorWallet) == s.creatorWallet = creatorWallet

\* Mutant: the nested scan leaves the survey id out of its prefix.
CreatorSurveyStats_AllResponses(st, survey) ==
    buildStats_andResponses(Values(StorageList(st, ResponseTag)))

\* The stats tools.ts listSurveysByCreator attaches to a matched survey: its
\* own scan of the survey's response prefix, summarised.
CreatorSurveyStats(st, survey) ==
    buildStats_andResponses(Values(StorageList(st, responsePrefix(survey.id))))

\* listSurveysByCreator: a scan of the "survey:" prefix, filtered; tools.ts
\* spreads each survey and adds its stats.
ListSurveysByCreatorResult(variant, st, creatorWallet) ==
    LET all == Values(StorageList(st, SurveyTag))
        surveys == SelectSeq(all, LAMBDA x : CreatorMatches(x, creatorWallet))
    IN  IF variant = "index"
        THEN [ok |-> TRUE, creatorWallet |-> creatorWallet, total |-> Len(surveys),
              surveys |-> [i \in 1..Len(surveys) |-> JsonSurvey(surveys[i])]]
        ELSE [ok |-> TRUE, creatorWallet |-> creatorWallet,
              surveys |-> [i \in 1..Len(surveys) |->
                              JsonSurvey(surveys[i]) @@
                              [stats |-> CreatorSurveyStats(st, surveys[i])]]]

(***************************************************************************)
(* Answer scoring. A text is a sequence of one-character strings.          *)
(***************************************************************************)
\* The characters String.prototype.trim removes, as far as texts here go.
WhiteSpace == {" ", "\t", "\n"}

RECURSIVE TrimStart(_)
TrimStart(text) ==
    IF text # <<>> /\ Head(text) \in WhiteSpace THEN TrimStart(Tail(text)) ELSE text

RECURSIVE TrimEnd(_)
TrimEnd(text) ==
    IF text # <<>> /\ text[Len(text)] \in WhiteSpace
    THEN TrimEnd(SubSeq(text, 1, Len(text) - 1))
    ELSE text

\* text.trim()
trim(text) == TrimEnd(TrimStart(text))

\* Math.min
Min(a, b) == IF a <= b THEN a ELSE b

\* evaluateAnswerText of index.ts, which its scoreSurveyAnswer returns.
evaluateAnswerText(text) ==
    LET length == Len(trim(text))
        isValid == length >= 40
    IN  [verdict |-> IF isValid THEN "VALID" ELSE "REJECTED",
         score |-> Min(10, length \div 20),
         length |-> length,
         explanation |-> IF isValid THEN "long enough" ELSE "too short"]

\* scoreSurveyAnswer of tools.ts, registered with storage.
scoreSurveyAnswer(answer) ==
    LET len == Len(trim(answer))
    IN  [verdict |-> IF len >= 40 THEN "VALID" ELSE "REJECTED",
         score |-> Min(10, len \div 20),
         length |-> len]

\* scoreSurveyAnswer of the registration that takes no storage.
scoreSurveyAnswer_NoStorage(answer) ==
    LET length == Len(trim(answer))
        isValid == length >= 20
    IN  [verdict |-> IF isValid THEN "VALID" ELSE "REJECTED",
         score |-> Min(5, (length \div 20) + 1),
         length |-> length,
         explanation |-> IF isValid THEN "cukup panjang" ELSE "terlalu pendek"]

\* The three setupServerTools in the source: index.ts, tools.ts with
\* storage, and the one without storage, which registers only ping and
\* scoreSurveyAnswer.
Registrations == Variants \cup {"nostorage"}

ScoreSurveyAnswerResult(registration, answer) ==
    CASE registration = "index" -> evaluateAnswerText(answer)
      [] registration = "tools" -> scoreSurveyAnswer(answer)
      [] registration = "nostorage" -> scoreSurveyAnswer_NoStorage(answer)

\* ping
PingResult(registration) ==
    CASE registration = "index" -> "pong SurveySensei MCP + Durable Object is alive!"
      [] registration = "tools" -> "pong SurveySensei MCP operational!"
      [] registration = "nostorage" -> "pong SurveySensei MCP is alive!"

\* The text of n copies of the character c.
Repeat(c, n) == [i \in 1..n |-> c]

\* The answer offered to scoreSurveyAnswer between storage calls: a short
\* word inside blanks.
AnswerArgs == {<<" ">> \o Repeat("a", 2) \o <<"\n">>}

\* The creatorWallet strings offered to listSurveysByCreator.
CreatorArgs == {<<"A", "B", "C">>, <<"a", "b", "c">>, <<"x", "y">>}

\* What a call answers when its storage.put rejects: the handler throws
\* at the await and returns nothing.
StorageFailure == [ok |-> FALSE, error |-> <<"storage.put rejected">>]

\* How an awaited storage.put can end.
PutOutcomes == {"stored", "rejected"}

(***************************************************************************)
(* The state machine: one action per tool call, run to completion.         *)
(***************************************************************************)
NoCall == [op |-> "none"]

Init ==
    /\ storage = EmptyStorage
    /\ last = NoCall
    /\ issued = {}
    /\ accepted = {}
    /\ okSubmits = [id \in SurveyIdArgs |-> 0]
    /\ handlers = <<>>
    /\ routed = {}

CreateSurveyMeta ==
    \E a \in CreateArgs :
        IF ~CreateSchemaAccepts(a)
        THEN /\ last' = [op |-> "createSurveyMeta", args |-> a, result |-> SchemaError]
             /\ UNCHANGED <<storage, issued, accepted, okSubmits, handlers, routed>>
        ELSE \E outcome \in PutOutcomes :
             IF outcome = "rejected"
             THEN /\ last' = [op |-> "createSurveyMeta", args |-> a,
                              result |-> StorageFailure]
                  /\ UNCHANGED <<storage, issued, accepted, okSubmits, handlers, routed>>
             ELSE /\ Cardinality(issued) < MaxSurveys
                  /\ \E id \in randomUUID(storage), time \in Times :
                         LET survey == NewSurvey(id, a, time)
                         IN  /\ storage' = StoragePut(storage, surveyKey(id), survey)
                             /\ last' = [op |-> "createSurveyMeta", args |-> a,
                                         result |-> [ok |-> TRUE,
                                                     survey |-> JsonSurvey(survey)]]
                             /\ issued' = issued \cup {JsonSurvey(survey)}
                  /\ UNCHANGED <<accepted, okSubmits, handlers, routed>>

SubmitResponse ==
    \E surveyId \in SurveyIdArgs, a \in SubmitArgs :
        LET call == [op |-> "submitResponse", surveyId |-> surveyId, args |-> a]
        IN  IF ~SubmitSchemaAccepts(a)
            THEN /\ last' = call @@ [result |-> SchemaError]
                 /\ UNCHANGED <<storage, issued, accepted, okSubmits, handlers, routed>>
            ELSE IF SurveyMissing(storage, surveyId)
            THEN /\ last' = call @@ [result |-> NotFoundMessage(surveyId)]
                 /\ UNCHANGED <<storage, issued, accepted, okSubmits, handlers, routed>>
            ELSE \E outcome \in PutOutcomes :
                 IF outcome = "rejected"
                 THEN /\ last' = call @@ [result |-> StorageFailure]
                      /\ UNCHANGED <<storage, issued, accepted, okSubmits, handlers, routed>>
                 ELSE /\ Cardinality(accepted) < MaxResponses
                      /\ \E variant \in Variants, responseId \in randomUUID(storage),
                            time \in Times :
                             LET response == NewResponse(responseId, surveyId, a, time)
                             IN  /\ storage' = StoragePut(storage,
                                                   responseKey(surveyId, responseId), response)
                                 /\ last' = call @@
                                            [result |-> SubmitOk(variant, surveyId, response)]
                                 /\ accepted' = accepted \cup {response}
                                 /\ okSubmits' = [okSubmits EXCEPT ![surveyId] = @ + 1]
                      /\ UNCHANGED <<issued, handlers, routed>>

GetSurveyById ==
    \E variant \in Variants, surveyId \in SurveyIdArgs :
        /\ last' = [op |-> "getSurveyById", surveyId |-> surveyId,
                    result |-> GetSurveyByIdResult(variant, storage, surveyId)]
        /\ UNCHANGED <<storage, issued, accepted, okSubmits, handlers, routed>>

GetSurveyStats ==
    \E variant \in Variants, surveyId \in SurveyIdArgs :
        /\ last' = [op |-> "getSurveyStats", variant |-> variant, surveyId |-> surveyId,
                    result |-> GetSurveyStatsResult(variant, storage, surveyId)]
        /\ UNCHANGED <<storage, issued, accepted, okSubmits, handlers, routed>>

ListValidWallets ==
    \E surveyId \in SurveyIdArgs :
        /\ last' = [op |-> "listValidWallets", surveyId |-> surveyId,
                    result |-> ListValidWalletsResult(storage, surveyId)]
        /\ UNCHANGED <<storage, issued, accepted, okSubmits, handlers, routed>>

ListSurveysByCreator ==
    \E variant \in Variants, creatorWallet \in CreatorArgs :
        /\ last' = [op |-> "listSurveysByCreator", variant |-> variant,
                    result |-> ListSurveysByCreatorResult(variant, storage, creatorWallet)]
        /\ UNCHANGED <<storage, issued, accepted, okSubmits, handlers, routed>>

\* scoreSurveyAnswer on one of the given answers.
ScoreSurveyAnswer(answers) ==
    \E registration \in Registrations, answer \in answers :
        /\ last' = [op |-> "scoreSurveyAnswer", registration |-> registration,
                    answer |-> answer,
                    result |-> ScoreSurveyAnswerResult(registration, answer)]
        /\ UNCHANGED <<storage, issued, accepted, okSubmits, handlers, routed>>

Ping ==
    \E registration \in Registrations :
        /\ last' = [op |-> "ping", result |-> PingResult(registration)]
        /\ UNCHANGED <<storage, issued, accepted, okSubmits, handlers, routed>>

Next ==
    \/ CreateSurveyMeta
    \/ SubmitResponse
    \/ GetSurveyById
    \/ GetSurveyStats
    \/ ListValidWallets

Spec == Init /\ [][Next]_vars

\* The most keys a store holds when a writing tool is called in SpecTools.
MaxKeys == 2

\* Every tool of the registrations, one call at a time; the writing tools
\* are called while the store holds fewer than MaxKeys keys.
NextTools ==
    \/ Cardinality(DOMAIN storage) < MaxKeys /\ CreateSurveyMeta
    \/ Cardinality(DOMAIN storage) < MaxKeys /\ SubmitResponse
    \/ GetSurveyById
    \/ GetSurveyStats
    \/ ListValidWallets
    \/ ListSurveysByCreator
    \/ ScoreSurveyAnswer(AnswerArgs)
    \/ Ping

SpecTools == Init /\ [][NextTools]_vars

\* The longest answer body offered and the most blanks on either side.
MaxAnswerLen == 205
MaxPad == 1

\* An answer body of n characters: letters at both ends, words of one
\* letter separated by single blanks in between.
AnswerBody(n) == [i \in 1..n |-> IF i = n \/ i % 2 = 1 THEN "a" ELSE " "]

\* The answers offered to scoreSurveyAnswer on its own: every body length
\* up to MaxAnswerLen, with and without blanks before and line ends after.
AnswerTexts ==
    {Repeat(" ", l) \o AnswerBody(n) \o Repeat("\n", t) :
        l \in 0..MaxPad, t \in 0..MaxPad, n \in 0..MaxAnswerLen}

\* scoreSurveyAnswer alone, in each registration.
NextScore == ScoreSurveyAnswer(AnswerTexts)

SpecScore == Init /\ [][NextScore]_vars

\* The calls that change what getSurveyStats reports, and getSurveyStats:
\* the createSurveyMeta and submitResponse calls that succeed (a call that
\* fails leaves the store as it is).
NextGrow ==
    \/ CreateSurveyMeta /\ last'.result.ok
    \/ SubmitResponse /\ last'.result.ok
    \/ GetSurveyStats

SpecGrow == Init /\ [][NextGrow]_vars

\* createSurveyMeta, submitResponse and listSurveysByCreator.
NextLists ==
    \/ CreateSurveyMeta
    \/ SubmitResponse
    \/ ListSurveysByCreator

SpecLists == Init /\ [][NextLists]_vars

(***************************************************************************)
(* The writing handlers step by step. A handler is an async function: it    *)
(* runs to its next `await storage...`, is suspended there, and resumes     *)
(* when the storage operation completes. Nothing in setupServerTools keeps  *)
(* a second call from starting while one is suspended.                      *)
(***************************************************************************)
Slots == 1..MaxHandlers

Idle == [pc |-> "idle"]

\* The ids generated by handlers that have not written yet.
PendingIds == {handlers[h].value.id : h \in {x \in Slots : handlers[x].pc \in {"createPut", "submitPut"}}}

\* The writes in flight, counted against the bounds of the model.
PendingPuts(pc) == Cardinality({h \in Slots : handlers[h].pc = pc})

\* The arguments offered to the handlers that are followed step by step.
AwaitCreateArgs ==
    { [title |-> "Survey", description |-> <<>>, questions |-> <<"Q1", "Q2">>,
       creatorWallet |-> <<"A", "B", "C">>, totalReward |-> 5, targetResponses |-> <<"number", 2, 1>>] }

AwaitSubmitArgs ==
    { [wallet |-> <<"A", "B", "C">>, answers |-> <<"yes">>, verdict |-> "VALID",
       score |-> Num(8), explanation |-> "ok"] }

InitAwait ==
    /\ storage = EmptyStorage
    /\ last = NoCall
    /\ issued = {}
    /\ accepted = {}
    /\ okSubmits = [id \in SurveyIdArgs |-> 0]
    /\ handlers = [h \in Slots |-> Idle]
    /\ routed = {}

\* createSurveyMeta up to `await storage.put(surveyKey(id), survey)`.
CreateCall(h) ==
    /\ handlers[h] = Idle
    /\ Cardinality(issued) + PendingPuts("createPut") < MaxSurveys
    /\ \E a \in {x \in AwaitCreateArgs : CreateSchemaAccepts(x)},
          id \in randomUUID(storage) \ PendingIds, time \in Times :
           handlers' = [handlers EXCEPT ![h] =
                           [pc |-> "createPut", args |-> a, value |-> NewSurvey(id, a, time)]]
    /\ UNCHANGED <<storage, last, issued, accepted, okSubmits, routed>>

\* createSurveyMeta from the completion of its put to its return.
CreatePutDone(h) ==
    /\ handlers[h].pc = "createPut"
    /\ \E outcome \in PutOutcomes :
           LET survey == handlers[h].value
           IN  IF outcome = "rejected"
               THEN /\ last' = [op |-> "createSurveyMeta", args |-> handlers[h].args,
                                result |-> StorageFailure]
                    /\ UNCHANGED <<storage, issued>>
               ELSE /\ storage' = StoragePut(storage, surveyKey(survey.id), survey)
                    /\ last' = [op |-> "createSurveyMeta", args |-> handlers[h].args,
                                result |-> [ok |-> TRUE, survey |-> JsonSurvey(survey)]]
                    /\ issued' = issued \cup {JsonSurvey(survey)}
    /\ handlers' = [handlers EXCEPT ![h] = Idle]
    /\ UNCHANGED <<accepted, okSubmits, routed>>

\* submitResponse up to `await storage.get(surveyKey(surveyId))`.
SubmitCall(h) ==
    /\ handlers[h] = Idle
    /\ \E surveyId \in SurveyIdArgs, a \in {x \in AwaitSubmitArgs : SubmitSchemaAccepts(x)} :
           handlers' = [handlers EXCEPT ![h] =
                           [pc |-> "submitGet", surveyId |-> surveyId, args |-> a]]
    /\ UNCHANGED <<storage, last, issued, accepted, okSubmits, routed>>

\* submitResponse from the completion of its get: the not-found return, or
\* on to `await storage.put(responseKey(surveyId, responseId), response)`.
SubmitGetDone(h) ==
    /\ handlers[h].pc = "submitGet"
    /\ LET surveyId == handlers[h].surveyId
           a == handlers[h].args
           call == [op |-> "submitResponse", surveyId |-> surveyId, args |-> a]
       IN  IF SurveyMissing(storage, surveyId)
           THEN /\ last' = call @@ [result |-> NotFoundMessage(surveyId)]
                /\ handlers' = [handlers EXCEPT ![h] = Idle]
           ELSE /\ Cardinality(accepted) + PendingPuts("submitPut") < MaxResponses
                /\ \E responseId \in randomUUID(storage) \ PendingIds, time \in Times :
                       handlers' = [handlers EXCEPT ![h] =
                           [pc |-> "submitPut", surveyId |-> surveyId, args |-> a,
                            value |-> NewResponse(responseId, surveyId, a, time)]]
                /\ UNCHANGED last
    /\ UNCHANGED <<storage, issued, accepted, okSubmits, routed>>

\* submitResponse from the completion of its put to its return.
SubmitPutDone(h) ==
    /\ handlers[h].pc = "submitPut"
    /\ \E outcome \in PutOutcomes :
           LET response == handlers[h].value
               surveyId == handlers[h].surveyId
               call == [op |-> "submitResponse", surveyId |-> surveyId,
                        args |-> handlers[h].args]
           IN  IF outcome = "rejected"
               THEN /\ last' = call @@ [result |-> StorageFailure]
                    /\ UNCHANGED <<storage, accepted, okSubmits>>
               ELSE /\ storage' = StoragePut(storage,
                                      responseKey(surveyId, response.id), response)
                    /\ \E variant \in Variants :
                           last' = call @@ [result |-> SubmitOk(variant, surveyId, response)]
                    /\ accepted' = accepted \cup {response}
                    /\ okSubmits' = [okSubmits EXCEPT ![surveyId] = @ + 1]
    /\ handlers' = [handlers EXCEPT ![h] = Idle]
    /\ UNCHANGED <<issued, routed>>

NextAwait ==
    \E h \in Slots :
        \/ CreateCall(h)
        \/ CreatePutDone(h)
        \/ SubmitCall(h)
        \/ SubmitGetDone(h)
        \/ SubmitPutDone(h)

SpecAwait == InitAwait /\ [][NextAwait]_vars

(***************************************************************************)
(* The entry router: the Worker's fetch, which picks the Durable Object    *)
(* that serves a request. A request is [method, path, query, body]; query  *)
(* is the URL's search parameters, a sequence of <<name, value>> pairs.    *)
(***************************************************************************)
\* The most requests followed through the router.
MaxRouted == 2

\* The query strings offered: none, an empty sessionId, a sessionId of its
\* own, sessionId=global, another parameter alone and before a sessionId,
\* and a sessionId given twice.
Queries ==
    { <<>>,
      << <<"sessionId", "">> >>,
      << <<"sessionId", "s1">> >>,
      << <<"sessionId", "global">> >>,
      << <<"transport", "sse">> >>,
      << <<"transport", "sse">>, <<"sessionId", "s2">> >>,
      << <<"sessionId", "s1">>, <<"sessionId", "s2">> >>,
      << <<"sessionId", "">>, <<"sessionId", "s2">> >> }

Requests ==
    [method : {"GET", "POST"}, path : {"/mcp", "/sse"}, query : Queries, body : {"rpc"}]

\* url.searchParams.get(name): <<>> for null, else <<value>> of the first
\* parameter of that name.
RECURSIVE searchParamsGet(_, _)
searchParamsGet(query, name) ==
    IF query = <<>> THEN <<>>
    ELSE IF Head(query)[1] = name THEN <<Head(query)[2]>>
    ELSE searchParamsGet(Tail(query), name)

\* url.searchParams.set(name, value): the first parameter of that name takes
\* the value and the others of that name are removed; without one, the
\* parameter is appended.
searchParamsSet(query, name, value) ==
    IF searchParamsGet(query, name) = <<>>
    THEN Append(query, <<name, value>>)
    ELSE LET first == CHOOSE i \in 1..Len(query) :
                          /\ query[i][1] = name
                          /\ \A j \in 1..(i - 1) : query[j][1] # name
             kept == SelectSeq(SubSeq(query, first + 1, Len(query)),
                               LAMBDA x : x[1] # name)
         IN  SubSeq(query, 1, first - 1) \o << <<name, value>> >> \o kept

\* Mutant: only a missing parameter gets the default; an empty one is kept.
sessionIdOf_EmptyKept(got) == IF got = <<>> THEN "global" ELSE got[1]

\* `if (!sessionId) sessionId = 'global'`: null and "" are both falsy.
sessionIdOf(got) == IF got = <<>> \/ got[1] = "" THEN "global" ELSE got[1]

\* env.EXAMPLE_MCP_SERVER.idFromName(name): the id is a function of the name.
idFromName(name) == <<"ExampleMcpServer", name>>

\* fetch: the instance chosen for a request and the request handed to it.
fetch(request) ==
    LET got == searchParamsGet(request.query, "sessionId")
        sessionId == sessionIdOf(got)
        query == IF got = <<>> \/ got[1] = ""
                 THEN searchParamsSet(request.query, "sessionId", sessionId)
                 ELSE request.query
    IN  [instance |-> idFromName(sessionId),
         forwarded |-> [request EXCEPT !.query = query]]

InitRouter == Init

\* One request through the router.
Fetch ==
    /\ Cardinality(routed) < MaxRouted
    /\ \E request \in Requests :
           routed' = routed \cup {[request |-> request] @@ fetch(request)}
    /\ UNCHANGED <<storage, last, issued, accepted, okSubmits, handlers>>

NextRouter == Fetch

SpecRouter == InitRouter /\ [][NextRouter]_vars

(***************************************************************************)
(* The statistics on records already in the storage. The storage outlives  *)
(* the code that wrote it: SurveyResponse allows the status PENDING, and a  *)
(* record written before the score field was added has no score.           *)
(***************************************************************************)
ResponseStatus == {"PENDING", "VALID", "REJECTED"}

\* The status and score pairs of the stored responses.
StoredStatusScores ==
    ({"VALID"} \X {Num(8), Num(3), <<"undefined", 0>>, <<"string", 0>>})
        \cup ({"REJECTED"} \X {Num(3), <<"string", 0>>})
        \cup ({"PENDING"} \X {Num(3), <<"undefined", 0>>})

StoredWallets == {<<"A", "B", "C">>, <<"a", "b", "c">>}

StoredSurveyId == <<"0", "0">>

\* The ids of the stored responses, in the order they are added.
StoredResponseIds == <<(<<"0", "1">>), (<<"1", "0">>), (<<"1", "1">>)>>

StoredSurvey ==
    NewSurvey(StoredSurveyId,
              [title |-> "Survey", description |-> <<>>, questions |-> <<"Q1">>,
               creatorWallet |-> <<"A", "B", "C">>, totalReward |-> 5, targetResponses |-> <<"number", 2, 1>>],
              1700)

StoredResponse(id, wallet, status, score) ==
    [id |-> id, surveyId |-> StoredSurveyId, wallet |-> wallet, answers |-> <<"yes">>,
     status |-> status, score |-> score, explanation |-> "ok", createdAt |-> 1700]

\* The storage with the stored survey and the given responses.
RECURSIVE StorageOf(_)
StorageOf(responses) ==
    IF responses = <<>>
    THEN StoragePut(EmptyStorage, surveyKey(StoredSurveyId), StoredSurvey)
    ELSE LET r == responses[Len(responses)]
         IN  StoragePut(StorageOf(SubSeq(responses, 1, Len(responses) - 1)),
                        responseKey(StoredSurveyId, r.id), r)

InitStats ==
    /\ \E n \in 0..MaxStored :
           /\ n <= Len(StoredResponseIds)
           /\ \E wallet \in [1..n -> StoredWallets], data \in [1..n -> StoredStatusScores] :
               storage = StorageOf([i \in 1..n |->
                             StoredResponse(StoredResponseIds[i], wallet[i],
                                            data[i][1], data[i][2])])
    /\ last = NoCall
    /\ issued = {JsonSurvey(StoredSurvey)}
    /\ accepted = {}
    /\ okSubmits = [id \in SurveyIdArgs |-> 0]
    /\ handlers = <<>>
    /\ routed = {}

NextStats ==
    \/ GetSurveyStats
    \/ ListValidWallets

SpecStats == InitStats /\ [][NextStats]_vars

\* The most records one scan delivers below; three additions are the fewest
\* whose rounding can differ with their order.
MaxScanned == 3

\* 2^53 = 9007199254740992, the first integer whose successor is no double.
TwoTo53 == <<"number", 0, 1>>

\* The status and score pairs submitResponse can have stored: its schema
\* takes any z.number() as the score.
ScannedStatusScores ==
    ({"VALID"} \X {Num(1), Num(3), TwoTo53}) \cup ({"REJECTED"} \X {Num(3)})

\* The stored survey with up to MaxScanned responses under its prefix. The
\* ids are random, so every sequence of records is some storage's key order.
InitOrder ==
    /\ \E n \in 0..MaxScanned :
           /\ n <= Len(StoredResponseIds)
           /\ \E wallet \in [1..n -> StoredWallets], data \in [1..n -> ScannedStatusScores] :
               storage = StorageOf([i \in 1..n |->
                             StoredResponse(StoredResponseIds[i], wallet[i],
                                            data[i][1], data[i][2])])
    /\ last = NoCall
    /\ issued = {JsonSurvey(StoredSurvey)}
    /\ accepted = {}
    /\ okSubmits = [id \in SurveyIdArgs |-> 0]
    /\ handlers = <<>>
    /\ routed = {}

NextOrder == GetSurveyStats

SpecOrder == InitOrder /\ [][NextOrder]_vars

\* A survey of another id, stored beside the responses below.
OtherSurvey == [StoredSurvey EXCEPT !.id = <<"1", "1">>]

\* A storage holding response records of StoredSurveyId without its survey
\* record (nothing in the tools removes or checks them once written), and
\* the survey of another id.
InitOrphans ==
    /\ \E n \in 0..MaxStored :
           /\ n <= Len(StoredResponseIds)
           /\ \E wallet \in [1..n -> StoredWallets], data \in [1..n -> StoredStatusScores] :
               LET st == StorageOf([i \in 1..n |->
                             StoredResponse(StoredResponseIds[i], wallet[i],
                                            data[i][1], data[i][2])])
                   kept == [k \in DOMAIN st \ {surveyKey(StoredSurveyId)} |-> st[k]]
               IN  storage = StoragePut(kept, surveyKey(OtherSurvey.id), OtherSurvey)
    /\ last = NoCall
    /\ issued = {JsonSurvey(OtherSurvey)}
    /\ accepted = {}
    /\ okSubmits = [id \in SurveyIdArgs |-> 0]
    /\ handlers = <<>>
    /\ routed = {}

SpecOrphans == InitOrphans /\ [][NextStats]_vars

(***************************************************************************)
(* Properties.                                                             *)
(***************************************************************************)
\* The survey ids that have a survey record.
ExistingSurveyIds == {id \in SurveyIdArgs : surveyKey(id) \in DOMAIN storage}

\* C1: for every survey and in both registrations, getSurveyStats reports as
\* totalResponses the number of submitResponse calls for that surveyId that
\* returned ok:true, whatever their status; failed submits and submits to
\* other surveys are not counted.
C1_TotalResponsesIsOkSubmits ==
    \A variant \in Variants, id \in SurveyIdArgs :
        LET r == GetSurveyStatsResult(variant, storage, id)
        IN  IF r.ok
            THEN r.stats.totalResponses = okSubmits[id]
            ELSE okSubmits[id] = 0

\* C1 witness: getSurveyStats has just reported two responses, one of them
\* REJECTED, for a survey while another survey exists.
C1_Witness ==
    /\ last.op = "getSurveyStats"
    /\ last.result.ok
    /\ last.result.stats.totalResponses = 2
    /\ \E r \in accepted : r.surveyId = last.surveyId /\ r.status = "REJECTED"
    /\ Cardinality(ExistingSurveyIds) = 2

\* C2: a schema-valid submitResponse whose surveyId has no survey record
\* returns the "Survey <id> not found" failure and leaves the storage, from
\* which every survey's stats are computed, exactly as it was.
C2_SubmitToMissingSurveyWritesNothing ==
    [][ (/\ last'.op = "submitResponse"
         /\ SubmitSchemaAccepts(last'.args)
         /\ surveyKey(last'.surveyId) \notin DOMAIN storage)
        => (/\ last'.result = NotFoundMessage(last'.surveyId)
            /\ storage' = storage) ]_vars

\* C2 witness: a submit to a missing survey has just failed on a storage
\* that holds a survey with a response.
C2_Witness ==
    /\ last.op = "submitResponse"
    /\ SubmitSchemaAccepts(last.args)
    /\ last.surveyId \notin ExistingSurveyIds
    /\ ~last.result.ok
    /\ accepted # {}

\* C7: every survey record createSurveyMeta returned is what getSurveyById
\* returns for its id, field by field, in both registrations and after any
\* later calls.
C7_CreateThenGetById ==
    \A s \in issued, variant \in Variants :
        GetSurveyByIdResult(variant, storage, s.id) = [ok |-> TRUE, survey |-> s]

\* C7 witness: getSurveyById has just returned a survey with a description
\* after a second survey was created and a response was submitted.
C7_Witness ==
    /\ last.op = "getSurveyById"
    /\ last.result.ok
    /\ last.result.survey \in issued
    /\ "description" \in DOMAIN last.result.survey
    /\ Cardinality(issued) = 2
    /\ accepted # {}

\* C8: getSurveyById with an id createSurveyMeta never returned fails with
\* the registration's not-found value, whatever else is stored.
C8_GetByIdUnknownFails ==
    \A id \in SurveyIdArgs \ {s.id : s \in issued} :
        /\ GetSurveyByIdResult("index", storage, id) = NotFoundMessage(id)
        /\ GetSurveyByIdResult("tools", storage, id) = NotFoundCode

\* C8 witness: getSurveyById has just failed for an id that is the id of a
\* stored response, while a survey exists.
C8_Witness ==
    /\ last.op = "getSurveyById"
    /\ ~last.result.ok
    /\ \E r \in accepted : r.id = last.surveyId
    /\ issued # {}

\* The keys of the stored response records.
ResponseKeys == {responseKey(r.surveyId, r.id) : r \in accepted}

\* C9: the scan of responsePrefix(surveyId) returns exactly the responses
\* submitted to that survey, each once; response keys are pairwise distinct,
\* start with their own survey's prefix and no other survey's, and are not
\* returned by the scan of the survey keys.
C9_PrefixScanIsExact ==
    /\ \A id \in ExistingSurveyIds :
           LET scanned == Values(StorageList(storage, responsePrefix(id)))
           IN  /\ {scanned[i] : i \in 1..Len(scanned)} = {r \in accepted : r.surveyId = id}
               /\ Len(scanned) = okSubmits[id]
    /\ \A r \in accepted :
           LET key == responseKey(r.surveyId, r.id)
           IN  /\ StorageGet(storage, key) = <<r>>
               /\ StartsWith(key, responsePrefix(r.surveyId))
               /\ \A other \in ExistingSurveyIds \ {r.surveyId} :
                      ~StartsWith(key, responsePrefix(other))
               /\ ~StartsWith(key, SurveyTag)
               /\ \A id \in SurveyIdArgs : key # surveyKey(id)
    /\ \A r1, r2 \in accepted :
           r1 # r2 => responseKey(r1.surveyId, r1.id) # responseKey(r2.surveyId, r2.id)
    /\ Cardinality(ResponseKeys) = Cardinality(accepted)
    /\ LET surveys == Values(StorageList(storage, SurveyTag))
       IN  /\ {JsonSurvey(surveys[i]) : i \in 1..Len(surveys)} = issued
           /\ Len(surveys) = Cardinality(issued)

\* C9 witness: two surveys exist and each has a response.
C9_Witness ==
    /\ Cardinality(ExistingSurveyIds) = 2
    /\ \A id \in ExistingSurveyIds : okSubmits[id] = 1

\* C10: no step removes a key or changes the value at a key, and every
\* accepted response is held at exactly one key.
C10_AppendOnly ==
    [][ /\ \A k \in DOMAIN storage : k \in DOMAIN storage' /\ storage'[k] = storage[k]
        /\ \A r \in accepted' :
               Cardinality({k \in DOMAIN storage' : storage'[k] = r}) = 1 ]_vars

\* C10 witness: two surveys and two responses are stored.
C10_Witness ==
    /\ Cardinality(issued) = 2
    /\ Cardinality(accepted) = 2
    /\ Cardinality(DOMAIN storage) = 4

\* The elements of a sequence.
Range(seq) == {seq[i] : i \in 1..Len(seq)}

\* The lower-cased wallets of the VALID responses accepted for a survey.
ValidLowerWallets(id) ==
    {toLowerCase(r.wallet) : r \in {x \in accepted : x.surveyId = id /\ x.status = "VALID"}}

\* C4: the wallets getSurveyStats (both registrations) and listValidWallets
\* return hold one entry per lower-cased wallet of a VALID response, so that
\* wallets differing only in letter case count once.
C4_WalletsDedupedOnLowerCase ==
    \A id \in ExistingSurveyIds :
        /\ \A variant \in Variants :
               LET stats == GetSurveyStatsResult(variant, storage, id).stats
               IN  /\ stats.totalValidWallets = Cardinality(ValidLowerWallets(id))
                   /\ {toLowerCase(w) : w \in Range(stats.wallets)} = ValidLowerWallets(id)
        /\ LET r == ListValidWalletsResult(storage, id)
           IN  /\ r.totalValidWallets = Cardinality(ValidLowerWallets(id))
               /\ {toLowerCase(w) : w \in Range(r.wallets)} = ValidLowerWallets(id)

\* The response records stored under the stored survey.
StoredResponses == Range(Values(StorageList(storage, responsePrefix(StoredSurveyId))))

RECURSIVE SumOfScores(_)
SumOfScores(rs) ==
    IF rs = {} THEN 0
    ELSE LET r == CHOOSE x \in rs : TRUE
         IN  r.score[2] + SumOfScores(rs \ {r})

\* The arithmetic mean of the scores of a set of responses; null for none.
MeanScore(rs) ==
    IF rs = {} THEN JsonNull ELSE Quotient(SumOfScores(rs), Cardinality(rs))

\* C5: what getSurveyStats returns, in either registration, leaves a stored
\* response without a numeric score out of the sum and of the count that
\* avgScore divides by, and counts it in totalResponses.
C5_MalformedScoreSkipped ==
    (last.op = "getSurveyStats" /\ last.result.ok)
    => /\ last.result.stats.totalResponses = Cardinality(StoredResponses)
       /\ last.result.stats.avgScore =
              MeanScore({r \in StoredResponses :
                             r.status = "VALID" /\ r.score[1] = "number"})

\* C6: when every VALID response holds a numeric score, avgScore is in both
\* registrations the mean of the scores of the VALID responses, whatever the
\* REJECTED and PENDING responses hold, and null when there is none.
C6_AvgScoreIsMeanOfValid ==
    (\A r \in StoredResponses : r.status = "VALID" => r.score[1] = "number")
    => \A variant \in Variants :
           GetSurveyStatsResult(variant, storage, StoredSurveyId).stats.avgScore
               = MeanScore({r \in StoredResponses : r.status = "VALID"})

\* C6 witness: getSurveyStats has just returned the average 8 for a VALID
\* response scored 8 beside a PENDING response scored 3.
C6_Witness ==
    /\ last.op = "getSurveyStats"
    /\ last.result.ok
    /\ last.result.stats.avgScore = Quotient(8, 1)
    /\ \E r \in StoredResponses : r.status = "PENDING" /\ r.score = Num(3)
    /\ \E r \in StoredResponses : r.status = "VALID" /\ r.score = Num(8)

\* Every stored response names a survey that has a record.
ResponsesReferToSurveys ==
    \A k \in DOMAIN storage :
        StartsWith(k, ResponseTag) => surveyKey(storage[k].surveyId) \in DOMAIN storage

\* The handlers suspended at an await.
Suspended == {h \in Slots : handlers[h] # Idle}

StoredSurveys == {storage[k] : k \in {j \in DOMAIN storage : StartsWith(j, SurveyTag)}}

\* An input (or a record built from one) that the description of
\* createSurveyMeta calls invalid: empty title, no question, totalReward
\* not above 0, or targetResponses not a positive integer.
InvalidCreateInput(a) ==
    \/ a.title = ""
    \/ Len(a.questions) = 0
    \/ a.totalReward <= 0
    \/ a.targetResponses[3] # 1
    \/ a.targetResponses[2] <= 0

\* C11: createSurveyMeta rejects every input whose title is empty, whose
\* question list is empty, whose totalReward is not greater than 0 or whose
\* targetResponses is not a positive integer: the call fails and no survey
\* record built from such an input is ever stored.
C11_CreateRejectsInvalidInput ==
    /\ (last.op = "createSurveyMeta" /\ InvalidCreateInput(last.args)) => ~last.result.ok
    /\ \A s \in StoredSurveys : ~InvalidCreateInput(s)

\* C12: a survey with no stored response yields totalResponses = 0,
\* totalValidWallets = 0, avgScore = null and wallets = [] from
\* getSurveyStats, in both registrations.
C12_EmptySurveyStats ==
    \A variant \in Variants, id \in ExistingSurveyIds :
        (\A r \in accepted : r.surveyId # id) =>
            LET stats == GetSurveyStatsResult(variant, storage, id).stats
            IN  /\ stats.totalResponses = 0
                /\ stats.totalValidWallets = 0
                /\ stats.avgScore = <<"null", 0, 1>>
                /\ stats.wallets = <<>>

\* C12 witness: getSurveyStats has just answered for a survey without
\* responses while another survey has one.
C12_Witness ==
    /\ last.op = "getSurveyStats"
    /\ last.result.ok
    /\ last.result.stats.totalResponses = 0
    /\ last.result.stats.avgScore = <<"null", 0, 1>>
    /\ accepted # {}

\* The calls that write when they succeed.
WritingOps == {"createSurveyMeta", "submitResponse"}

\* C13: every call changes at most one key. A successful createSurveyMeta or
\* submitResponse adds exactly one new key and leaves every other key as it
\* was; getSurveyById, listSurveysByCreator, getSurveyStats, listValidWallets,
\* scoreSurveyAnswer and ping, and every failing call (a rejected storage
\* write included), leave the store unchanged.
C13_OneKeyPerCall ==
    [][ IF last'.op \in WritingOps /\ last'.result.ok
        THEN /\ Cardinality(DOMAIN storage' \ DOMAIN storage) = 1
             /\ \A k \in DOMAIN storage : k \in DOMAIN storage' /\ storage'[k] = storage[k]
        ELSE storage' = storage ]_vars

\* C13 witness: submitResponse's storage write was rejected and has left
\* the store, which holds the survey alone, as it was.
C13_Witness ==
    /\ last.op = "submitResponse"
    /\ last.result = StorageFailure
    /\ DOMAIN storage = {SurveyTag \o last.surveyId}

(***************************************************************************)
(* Claims about answer scoring                                             *)
(***************************************************************************)
\* The length of a text without its leading and trailing white space: the
\* span from its first to its last character that is not white space.
TrimmedLength(text) ==
    LET solid == {i \in 1..Len(text) : text[i] \notin {" ", "\t", "\n"}}
    IN  IF solid = {} THEN 0
        ELSE (CHOOSE i \in solid : \A j \in solid : j <= i)
             - (CHOOSE i \in solid : \A j \in solid : i <= j) + 1

\* C14: scoreSurveyAnswer on the empty string, and on any string of white
\* space only, yields verdict REJECTED, score 0 and length 0 in every
\* registration of the tool.
C14_BlankAnswerScoresZero ==
    (last.op = "scoreSurveyAnswer" /\ TrimmedLength(last.answer) = 0) =>
        /\ last.result.verdict = "REJECTED"
        /\ last.result.score = 0
        /\ last.result.length = 0

\* C15: for every text, with L the length of the trimmed text, the answer
\* validator returns length L, verdict VALID exactly when L >= 40 and
\* REJECTED otherwise, and score min(10, floor(L / 20)).
C15_VerdictAndScoreByLength ==
    last.op = "scoreSurveyAnswer" =>
        LET L == TrimmedLength(last.answer)
        IN  /\ last.result.length = L
            /\ last.result.verdict = (IF L >= 40 THEN "VALID" ELSE "REJECTED")
            /\ last.result.score = (IF L \div 20 < 10 THEN L \div 20 ELSE 10)

(***************************************************************************)
(* Claims relating the read tools to each other                            *)
(***************************************************************************)
\* C16: in every reachable state and for every existing survey,
\* listValidWallets returns the same totalResponses, totalValidWallets and
\* set of wallets as getSurveyStats of the same registration (index.ts)
\* computed on the same store.
C16_ValidWalletsAgreesWithStats ==
    \A id \in ExistingSurveyIds :
        LET w == ListValidWalletsResult(storage, id)
            g == GetSurveyStatsResult("index", storage, id)
        IN  /\ w.ok /\ g.ok
            /\ w.totalResponses = g.stats.totalResponses
            /\ w.totalValidWallets = g.stats.totalValidWallets
            /\ Range(w.wallets) = Range(g.stats.wallets)

\* C16 witness: listValidWallets has just answered for a survey with a VALID
\* and a REJECTED response.
C16_Witness ==
    /\ last.op = "listValidWallets"
    /\ last.result.ok
    /\ last.result.totalResponses = 2
    /\ last.result.totalValidWallets = 1

\* A returned survey without the stats tools.ts attaches to it.
WithoutStats(x) == [f \in DOMAIN x \ {"stats"} |-> x[f]]

\* C17: in both registrations listSurveysByCreator returns exactly the
\* created surveys whose creatorWallet equals the argument, letter case
\* included: each of them once, no survey of another creator and no
\* response record.
C17_ListByCreatorIsExact ==
    \A variant \in Variants, creatorWallet \in CreatorArgs :
        LET returned == ListSurveysByCreatorResult(variant, storage, creatorWallet).surveys
            expected == {x \in issued : x.creatorWallet = creatorWallet}
        IN  /\ Len(returned) = Cardinality(expected)
            /\ {WithoutStats(returned[i]) : i \in 1..Len(returned)} = expected

\* C17 witness: listSurveysByCreator has just returned one survey while the
\* store also holds a response and a survey whose creator differs from the
\* argument in letter case only.
C17_Witness ==
    /\ last.op = "listSurveysByCreator"
    /\ Len(last.result.surveys) = 1
    /\ accepted # {}
    /\ \E x \in issued :
           /\ x.creatorWallet # last.result.creatorWallet
           /\ toLowerCase(x.creatorWallet) = toLowerCase(last.result.creatorWallet)

\* C18: in every reachable state, the stats tools.ts listSurveysByCreator
\* attaches to each survey it returns equal the stats tools.ts getSurveyStats
\* returns for that survey id on the same store: same totalResponses,
\* totalValidWallets, avgScore and set of wallets.
C18_AttachedStatsAgreeWithGetSurveyStats ==
    \A creatorWallet \in CreatorArgs :
        LET returned == ListSurveysByCreatorResult("tools", storage, creatorWallet).surveys
        IN  \A i \in 1..Len(returned) :
                LET a == returned[i].stats
                    g == GetSurveyStatsResult("tools", storage, returned[i].id)
                IN  /\ g.ok
                    /\ a.totalResponses = g.stats.totalResponses
                    /\ a.totalValidWallets = g.stats.totalValidWallets
                    /\ a.avgScore = g.stats.avgScore
                    /\ Range(a.wallets) = Range(g.stats.wallets)

\* C18 witness: the stats-bearing listSurveysByCreator has just returned a
\* survey with one response while another survey holds a response too.
C18_Witness ==
    /\ last.op = "listSurveysByCreator"
    /\ last.variant = "tools"
    /\ Cardinality(accepted) = 2
    /\ \E i \in 1..Len(last.result.surveys) :
           /\ last.result.surveys[i].stats.totalResponses = 1
           /\ last.result.surveys[i].stats.totalValidWallets = 1

(***************************************************************************)
(* Claims about the entry router                                           *)
(***************************************************************************)
\* The sessionId query parameter of a request: the values of the parameters
\* named sessionId, first one first.
SessionParams(request) ==
    SelectSeq(request.query, LAMBDA x : x[1] = "sessionId")

\* The session a request asks for: its first sessionId value, or "global"
\* when it has none or an empty one.
RequestedSession(request) ==
    IF SessionParams(request) = <<>> \/ SessionParams(request)[1][2] = ""
    THEN "global"
    ELSE SessionParams(request)[1][2]

\* Original statement of C19: every request reaches one instance that its
\* sessionId parameter alone determines, "global" when the parameter is
\* missing or empty, and the instance receives the request unchanged.
C19_ForwardedUnchanged ==
    /\ \A r \in routed :
           /\ r.instance = <<"ExampleMcpServer", RequestedSession(r.request)>>
           /\ r.forwarded = r.request
    /\ \A r1, r2 \in routed :
           RequestedSession(r1.request) = RequestedSession(r2.request)
               => r1.instance = r2.instance

\* C19: every request reaches one instance that its sessionId parameter
\* alone determines: two requests with the same sessionId reach the same
\* instance, and one with no or an empty sessionId reaches the instance
\* named "global". Method, path and body are forwarded as received; so is
\* the query when it has a non-empty sessionId, and otherwise the forwarded
\* query is the received one with its sessionId parameters replaced by the
\* single sessionId=global.
C19_RoutedBySessionId ==
    /\ \A r \in routed :
           /\ r.instance = <<"ExampleMcpServer", RequestedSession(r.request)>>
           /\ r.forwarded.method = r.request.method
           /\ r.forwarded.path = r.request.path
           /\ r.forwarded.body = r.request.body
           /\ SelectSeq(r.forwarded.query, LAMBDA x : x[1] # "sessionId")
                  = SelectSeq(r.request.query, LAMBDA x : x[1] # "sessionId")
           /\ IF SessionParams(r.request) # <<>> /\ SessionParams(r.request)[1][2] # ""
              THEN r.forwarded.query = r.request.query
              ELSE SessionParams(r.forwarded) = << <<"sessionId", "global">> >>
    /\ \A r1, r2 \in routed :
           RequestedSession(r1.request) = RequestedSession(r2.request)
               => r1.instance = r2.instance

\* C19 witness: the router has forwarded a request without sessionId and one
\* with an empty sessionId, on different paths, to the same instance.
C19_Witness ==
    \E r1, r2 \in routed :
        /\ SessionParams(r1.request) = <<>>
        /\ SessionParams(r2.request) # <<>>
        /\ SessionParams(r2.request)[1][2] = ""
        /\ r1.request.path # r2.request.path
        /\ r1.instance = r2.instance

(***************************************************************************)
(* Claims about statistics of a survey that does not exist                 *)
(***************************************************************************)
\* C20: getSurveyStats (both registrations) and listValidWallets on a
\* surveyId without a survey record return the failure value, ok false and
\* an error and nothing else, whether or not response records are stored
\* under that id's prefix.
C20_StatsOfMissingSurveyFail ==
    \A id \in SurveyIdArgs \ ExistingSurveyIds :
        /\ \A variant \in Variants :
               LET r == GetSurveyStatsResult(variant, storage, id)
               IN  DOMAIN r = {"ok", "error"} /\ ~r.ok
        /\ LET w == ListValidWalletsResult(storage, id)
           IN  DOMAIN w = {"ok", "error"} /\ ~w.ok

\* C20 witness: listValidWallets has just failed for a surveyId under whose
\* prefix two response records are stored.
C20_Witness ==
    /\ last.op = "listValidWallets"
    /\ ~last.result.ok
    /\ Cardinality({k \in DOMAIN storage : StartsWith(k, ResponseTag \o last.surveyId)}) = 2

(***************************************************************************)
(* Claims about the stored responses and the shape of the statistics       *)
(***************************************************************************)
\* The stored response records.
StoredResponseRecords ==
    {storage[k] : k \in {j \in DOMAIN storage : StartsWith(j, ResponseTag)}}

\* C21: a successful submitResponse stores exactly the wallet, answers,
\* score and explanation the caller gave, with the status equal to the
\* verdict given, whatever the answers are; so every stored response has
\* status VALID or REJECTED and none has status PENDING.
C21_SubmitStoresCallerVerdict ==
    /\ (last.op = "submitResponse" /\ last.result.ok) =>
           LET key == ResponseTag \o last.surveyId \o <<":">> \o last.result.response.id
           IN  /\ key \in DOMAIN storage
               /\ storage[key].wallet = last.args.wallet
               /\ storage[key].answers = last.args.answers
               /\ storage[key].score = last.args.score
               /\ storage[key].explanation = last.args.explanation
               /\ storage[key].status = last.args.verdict
    /\ \A r \in StoredResponseRecords : r.status \in {"VALID", "REJECTED"}

\* C21 witness: a submitResponse with verdict VALID and a one-word answer
\* has just succeeded, beside a stored REJECTED response.
C21_Witness ==
    /\ last.op = "submitResponse"
    /\ last.result.ok
    /\ last.args.verdict = "VALID"
    /\ last.args.answers = <<"yes">>
    /\ \E r \in StoredResponseRecords : r.status = "REJECTED"

\* The stored responses of a survey that have status VALID.
ValidStored(id) == {r \in StoredResponseRecords : r.surveyId = id /\ r.status = "VALID"}

\* C22: in every reachable state, for every existing survey and in both
\* registrations, totalValidWallets is the length of wallets, wallets has no
\* duplicates, it is no longer than the number of stored VALID responses,
\* and that number is at most totalResponses.
C22_StatsCountsAreOrdered ==
    \A variant \in Variants, id \in ExistingSurveyIds :
        LET stats == GetSurveyStatsResult(variant, storage, id).stats
        IN  /\ stats.totalValidWallets = Len(stats.wallets)
            /\ Cardinality(Range(stats.wallets)) = Len(stats.wallets)
            /\ Len(stats.wallets) <= Cardinality(ValidStored(id))
            /\ Cardinality(ValidStored(id)) <= stats.totalResponses

\* C22 witness: getSurveyStats has just reported one valid wallet for a
\* survey that holds two VALID responses of that wallet.
C22_Witness ==
    /\ last.op = "getSurveyStats"
    /\ last.result.ok
    /\ last.result.stats.totalValidWallets = 1
    /\ Cardinality(ValidStored(last.surveyId)) = 2
    /\ \A r \in ValidStored(last.surveyId) : r.wallet = last.result.stats.wallets[1]

\* C23: for a fixed survey and registration, no step makes getSurveyStats
\* report fewer responses or drop a wallet it reported before; so across
\* any two getSurveyStats calls, whatever is called in between,
\* totalResponses never decreases and every wallet reported valid by the
\* earlier call is reported by the later one. (A step that leaves the store
\* as it is leaves the stats as they are.)
C23_StatsOnlyGrow ==
    [][ \/ storage' = storage
        \/ \A variant \in Variants, id \in ExistingSurveyIds :
               LET a == GetSurveyStatsResult(variant, storage, id)
                   b == GetSurveyStatsResult(variant, storage', id)
               IN  /\ b.ok
                   /\ a.stats.totalResponses <= b.stats.totalResponses
                   /\ Range(a.stats.wallets) \subseteq Range(b.stats.wallets) ]_vars

\* C23 witness: getSurveyStats has just answered for a survey after its
\* second response, of a second wallet, was stored beside another survey.
C23_Witness ==
    /\ last.op = "getSurveyStats"
    /\ last.result.ok
    /\ last.result.stats.totalResponses = 2
    /\ last.result.stats.totalValidWallets = 2
    /\ Cardinality(ExistingSurveyIds) = 2

\* The entries of one scan in every order a scan could deliver them.
ScanOrders(entries) ==
    {[i \in 1..Len(entries) |-> entries[p[i]]] : p \in Permutations(1..Len(entries))}

\* The stats either getSurveyStats computes from the entries, in their order.
StatsInOrder(variant, entries) ==
    IF variant = "index" THEN StatsIndex(entries)
    ELSE buildStats_andResponses(Values(entries))

SameCounts(a, b) ==
    /\ a.totalResponses = b.totalResponses
    /\ a.totalValidWallets = b.totalValidWallets
    /\ Range(a.wallets) = Range(b.wallets)

\* The scores summed are integers below 2^53, as is every sum of them here.
ExactScores(entries) ==
    \A i \in 1..Len(entries) :
        entries[i][2].status = "VALID" => Hi(entries[i][2].score) = 0

\* C24 as stated: the stats getSurveyStats returns are those of every other
\* order of the same stored responses: totalResponses, totalValidWallets, the
\* set of wallets and avgScore are all equal.
C24_StatsIgnoreScanOrder ==
    (last.op = "getSurveyStats" /\ last.result.ok) =>
        \A entries \in ScanOrders(StorageList(storage, responsePrefix(last.surveyId))) :
            LET s == StatsInOrder(last.variant, entries)
            IN  /\ SameCounts(s, last.result.stats)
                /\ s.avgScore = last.result.stats.avgScore

\* C24, amended: in every order of the same stored responses
\* totalResponses, totalValidWallets and the set of wallets are equal, and
\* avgScore is equal when the scores are integers whose sums stay below 2^53,
\* so that no addition rounds.
C24_CountsIgnoreScanOrder ==
    (last.op = "getSurveyStats" /\ last.result.ok) =>
        \A entries \in ScanOrders(StorageList(storage, responsePrefix(last.surveyId))) :
            LET s == StatsInOrder(last.variant, entries)
            IN  /\ SameCounts(s, last.result.stats)
                /\ ExactScores(entries) => s.avgScore = last.result.stats.avgScore

\* Three responses of two wallets with the scores 1, 3 and 1 in some order
\* were scanned, and a score of 2^53 in another run.
C24_Witness ==
    /\ last.op = "getSurveyStats"
    /\ last.result.ok
    /\ last.result.stats.totalResponses = 3
    /\ last.result.stats.totalValidWallets = 2
    /\ last.result.stats.avgScore = Quotient(5, 3)
    /\ storage[responseKey(StoredSurveyId, StoredResponseIds[1])].score = Num(3)

=============================================================================
